---------------------------- MODULE Spec2Model ----------------------------
(***************************************************************************)
(* Crypto Price Tracker (crypto.py): the Streamlit script as a state       *)
(* machine.  One script run is one polling cycle: sidebar, threshold table *)
(* sync and editor, fetch, price/history loop, alert loop, notification    *)
(* loop, log viewer, auto refresh.  st.session_state (history,             *)
(* last_alert_state, thresholds) and the widget value custom_coin live     *)
(* across runs; everything else is a script local and dies with the run.   *)
(***************************************************************************)
EXTENDS Integers, Sequences, FiniteSets, TLC

\* HISTORY_LEN is 300 in crypto.py:28.  The buffer code is parametric in it;
\* the model checks it at a small value so that eviction is reached.
HISTORY_LEN == 2
\* Cap on the samples recorded per asset by the specification that keeps the
\* full fetch record (larger than HISTORY_LEN, so that eviction happens).
MaxSamples == 3

Coins == {"bitcoin", "ethereum"}
CustomIds == {"Solana", "bitcoin"}
Prices == {1, 2}
\* price is None: the quote is missing (d.get(vs_currency), line 190/241)
NoPrice == 0 - 1

VARIABLES
    history,            \* st.session_state.history: coin -> list of prices
    last_alert_state,   \* st.session_state.last_alert_state: coin -> {below, above}
    thresholds,         \* st.session_state.thresholds: coin -> its rows, in table order
    custom_coin,        \* value of the "Add custom coin ID" text input ("" = empty)
    pc,                 \* position of the script run
    coins,              \* the run's coin list (multiselect value, plus line 94)
    price_data,         \* the run's quotes: coin -> price or NoPrice
    idx,                \* index of the running for-loop (1-based)
    triggered_alerts,   \* the run's triggered alerts, in order
    smtp_configured,    \* all([smtp_server, ..., email_receiver]) of this run
    logged,             \* indices of triggered_alerts appended to alerts.log
    attempted,          \* indices of triggered_alerts with a send_email_alert call
    failed,             \* indices whose send_email_alert raised (st.error shown)
    crash_site,         \* where an uncaught exception ended the run ("" = none)
    log_view,           \* what the log viewer displayed in this run
    fetched,            \* record: every non-absent price fetched per coin (capped)
    prev_price,         \* record: the coin's most recent price of an earlier run
    edited,             \* record: the coin's rows changed since that price
    last_state0,        \* record: last_alert_state when the run started
    evaluated           \* record: crossings found by the coin's last full evaluation

vars == <<history, last_alert_state, thresholds, custom_coin, pc, coins,
          price_data, idx, triggered_alerts, smtp_configured, logged,
          attempted, failed, crash_site, log_view, fetched, prev_price,
          edited, last_state0, evaluated>>

session == <<history, last_alert_state, thresholds>>
notifyVars == <<smtp_configured, logged, attempted, failed>>
recordVars == <<fetched, prev_price, edited, last_state0, evaluated>>

-----------------------------------------------------------------------------
(* Threshold cells.  A cell of the data editor is None, NaN, a number, or a *)
(* string (the lower/upper columns start as all-None object columns).       *)

NoneCell == [kind |-> "none", text |-> "", val |-> 0]
NaNCell == [kind |-> "nan", text |-> "", val |-> 0]
NumCell(n) == [kind |-> "num", text |-> "", val |-> n]
StrCell(s) == [kind |-> "str", text |-> s, val |-> 0]

Numeral == ("1" :> 1) @@ ("2" :> 2)

\* float(x) raises ValueError on a string that is no numeral
FloatRaises(v) == v.kind = "str" /\ v.text \notin DOMAIN Numeral
\* float(x) is NaN
FloatIsNaN(v) == v.kind = "nan"
\* float(x) of a number or a numeral
FloatValue(v) == IF v.kind = "num" THEN v.val ELSE Numeral[v.text]

\* x is not None
IsNotNone(v) == v.kind # "none"

\* price <= float(lower), float(lower) already known not to raise
PriceLe(price, v) == ~FloatIsNaN(v) /\ price <= FloatValue(v)
\* price >= float(upper)
PriceGe(price, v) == ~FloatIsNaN(v) /\ price >= FloatValue(v)

\* a bound that is a usable number
Usable(v) == IsNotNone(v) /\ ~FloatRaises(v) /\ ~FloatIsNaN(v)

Cells == {NoneCell, NaNCell, NumCell(1), StrCell("2"), StrCell("abc")}
MkRow(l, u) == [lower |-> l, upper |-> u]
EmptyRow == MkRow(NoneCell, NoneCell)
AllRows == {MkRow(l, u) : l \in Cells, u \in Cells}

\* str.lower() on the ids the operator can type
Lower(s) == IF s = "Solana" THEN "solana" ELSE s

Range(s) == {s[i] : i \in 1..Len(s)}

NoState == [below |-> FALSE, above |-> FALSE]

-----------------------------------------------------------------------------
(* Environments: what the operator and the price API may supply.           *)

Env(lists, rowseqs, prices, cap) ==
    [lists |-> lists, rowseqs |-> rowseqs, prices |-> prices, cap |-> cap]

\* one tracked asset, every kind of threshold cell, the fetch record kept
EnvOne == Env({<<>>, <<"bitcoin">>},
              {<<>>} \cup {<<r>> : r \in AllRows}, Prices, MaxSamples)

\* two tracked assets in either order, one price, lower bounds only: none, a
\* number, a malformed string
LowerRows == {MkRow(l, NoneCell) : l \in {NoneCell, NumCell(1), StrCell("abc")}}
CoinLists == {<<>>, <<"bitcoin">>, <<"ethereum">>,
              <<"bitcoin", "ethereum">>, <<"ethereum", "bitcoin">>}
EnvTwo == Env(CoinLists, {<<>>} \cup {<<r>> : r \in LowerRows}, {1}, 0)

Tracked(E) == UNION {Range(l) : l \in E.lists}

-----------------------------------------------------------------------------
Init ==
    /\ history = [c \in Coins |-> <<>>]
    /\ last_alert_state = [c \in Coins |-> NoState]
    /\ thresholds = [c \in Coins |-> <<>>]
    /\ custom_coin = ""
    /\ pc = "sidebar"
    /\ coins = <<>>
    /\ price_data = [c \in Coins |-> NoPrice]
    /\ idx = 0
    /\ triggered_alerts = <<>>
    /\ smtp_configured = FALSE
    /\ logged = {}
    /\ attempted = {}
    /\ failed = {}
    /\ crash_site = ""
    /\ log_view = ""
    /\ fetched = [c \in Coins |-> <<>>]
    /\ prev_price = [c \in Coins |-> NoPrice]
    /\ edited = [c \in Coins |-> FALSE]
    /\ last_state0 = [c \in Coins |-> NoState]
    /\ evaluated = [c \in Coins |-> NoState]

\* A new script run starts at the top: the locals of the last run are gone.
BeginRun ==
    /\ pc' = "sidebar"
    /\ coins' = <<>>
    /\ price_data' = [c \in Coins |-> NoPrice]
    /\ idx' = 0
    /\ triggered_alerts' = <<>>
    /\ smtp_configured' = FALSE
    /\ logged' = {}
    /\ attempted' = {}
    /\ failed' = {}
    /\ crash_site' = ""
    /\ log_view' = ""
    /\ prev_price' = [c \in Coins |->
            IF price_data[c] # NoPrice THEN price_data[c] ELSE prev_price[c]]
    /\ edited' = [c \in Coins |-> IF price_data[c] # NoPrice THEN FALSE ELSE edited[c]]
    /\ last_state0' = last_alert_state
    /\ UNCHANGED <<session, fetched, evaluated>>

\* st_autorefresh fires: the script is run again
TimerRerun ==
    /\ pc = "idle"
    /\ BeginRun
    /\ UNCHANGED custom_coin

\* The operator types into (or clears) the custom coin input; any widget
\* interaction runs the script again, also after a run that ended in an error.
OperatorInput ==
    /\ pc \in {"idle", "crashed", "rerun"}
    /\ \E id \in CustomIds \cup {""} : custom_coin' = id
    /\ BeginRun

\* st.experimental_rerun() (line 95): the run stops and the script starts over
RerunScript ==
    /\ pc = "rerun"
    /\ BeginRun
    /\ UNCHANGED custom_coin

\* lines 84-95: coin selection and the custom coin input
Sidebar(E) ==
    /\ pc = "sidebar"
    /\ \E sel \in E.lists :
         IF custom_coin # ""
         THEN /\ coins' = IF custom_coin \notin Range(sel)
                          THEN Append(sel, Lower(custom_coin)) ELSE sel
              /\ pc' = "rerun"
         ELSE /\ coins' = sel
              /\ pc' = "thresholds"
    /\ UNCHANGED <<session, custom_coin, price_data, idx, triggered_alerts,
                   notifyVars, crash_site, log_view, recordVars>>

\* rows changed for a coin that has an earlier price on record
Edited(new) ==
    [c \in Coins |-> edited[c] \/ (new[c] # thresholds[c] /\ prev_price[c] # NoPrice)]

\* lines 153-169: every selected coin gets a row (None, None) if it has none.
\* The first run's table (lines 155-160) is this sync applied to no rows.
SyncThresholds ==
    /\ pc = "thresholds"
    /\ LET new == [c \in Coins |->
                     IF c \in Range(coins) /\ thresholds[c] = <<>>
                     THEN <<EmptyRow>> ELSE thresholds[c]]
       IN /\ thresholds' = new
          /\ edited' = Edited(new)
    /\ pc' = "editor"
    /\ UNCHANGED <<history, last_alert_state, custom_coin, coins, price_data, idx,
                   triggered_alerts, notifyVars, crash_site, log_view,
                   fetched, prev_price, last_state0, evaluated>>

\* lines 171-178: the data editor returns the table as the operator left it
\* (cells retyped, rows deleted or added); the result is persisted.
DataEditor(E) ==
    /\ pc = "editor"
    /\ \E c \in Tracked(E), rs \in E.rowseqs :
         LET new == [thresholds EXCEPT ![c] = rs]
         IN /\ thresholds' = new
            /\ edited' = Edited(new)
    /\ pc' = "fetch"
    /\ UNCHANGED <<history, last_alert_state, custom_coin, coins, price_data, idx,
                   triggered_alerts, notifyVars, crash_site, log_view,
                   fetched, prev_price, last_state0, evaluated>>

\* lines 31-49, 183: fetch_prices.  No coins, or any request failure, gives {};
\* a reply may lack any coin.  E.cap > 0 records the samples, at most cap each.
Fetch(E) ==
    /\ pc = "fetch"
    /\ \E pd \in [Coins -> E.prices \cup {NoPrice}] :
         /\ \A c \in Coins : c \notin Range(coins) => pd[c] = NoPrice
         /\ \A c \in Coins :
              (E.cap > 0 /\ Len(fetched[c]) >= E.cap) => pd[c] = NoPrice
         /\ price_data' = pd
         /\ fetched' = [c \in Coins |->
                IF E.cap > 0 /\ pd[c] # NoPrice
                THEN Append(fetched[c], pd[c]) ELSE fetched[c]]
    /\ pc' = "history"
    /\ idx' = 1
    /\ UNCHANGED <<session, custom_coin, coins, triggered_alerts, notifyVars,
                   crash_site, log_view, prev_price, edited, last_state0, evaluated>>

\* HistAppend with the slice taken from the wrong end (hist[:HISTORY_LEN])
HistAppend_KeepOldest(hist, price) ==
    IF price # NoPrice
    THEN LET h == Append(hist, price)
         IN IF Len(h) > HISTORY_LEN THEN SubSeq(h, 1, HISTORY_LEN) ELSE h
    ELSE hist

\* lines 194-199: append the price, keep the last HISTORY_LEN
HistAppend(hist, price) ==
    IF price # NoPrice
    THEN LET h == Append(hist, price)
         IN IF Len(h) > HISTORY_LEN
            THEN SubSeq(h, Len(h) - HISTORY_LEN + 1, Len(h))
            ELSE h
    ELSE hist

\* lines 188-206: one iteration of the price/history loop
HistoryIter ==
    /\ pc = "history"
    /\ idx <= Len(coins)
    /\ LET c == coins[idx]
       IN history' = [history EXCEPT ![c] = HistAppend(history[c], price_data[c])]
    /\ idx' = idx + 1
    /\ UNCHANGED <<last_alert_state, thresholds, custom_coin, pc, coins, price_data,
                   triggered_alerts, notifyVars, crash_site, log_view, recordVars>>

\* lines 208-234: the loop is over; the table and the charts only read
HistoryDone ==
    /\ pc = "history"
    /\ idx > Len(coins)
    /\ pc' = "alerts"
    /\ idx' = 1
    /\ UNCHANGED <<session, custom_coin, coins, price_data, triggered_alerts,
                   notifyVars, crash_site, log_view, recordVars>>

\* line 237/245: th_map keeps the last row of a coin
ThMap(c) == thresholds[c][Len(thresholds[c])]

\* CrossedBelow with the comparison turned round (price >= float(lower))
CrossedBelow_Flipped(price, lower) == IsNotNone(lower) /\ PriceGe(price, lower)

\* line 255
CrossedBelow(price, lower) == IsNotNone(lower) /\ PriceLe(price, lower)
\* line 256
CrossedAbove(price, upper) == IsNotNone(upper) /\ PriceGe(price, upper)

\* NewLatch without the elif branch that clears the latch
NewLatch_NoReset(crossed, last) == IF crossed /\ ~last THEN TRUE ELSE last

\* lines 259-264 (and 266-271): the latch of one direction
NewLatch(crossed, last) ==
    IF crossed /\ ~last THEN TRUE
    ELSE IF ~crossed THEN FALSE
    ELSE last

\* lines 259, 266: the alert fires on the edge only
Fires(crossed, last) == crossed /\ ~last

Alert(c, dir) == [coin |-> c, dir |-> dir]

\* lines 255-256: which float() call raises, if any ("" = none)
FloatError(th) ==
    IF IsNotNone(th.lower) /\ FloatRaises(th.lower) THEN "float_lower"
    ELSE IF IsNotNone(th.upper) /\ FloatRaises(th.upper) THEN "float_upper"
    ELSE ""

\* Skips without the test for a missing price
Skips_RowOnly(price, rows) == rows = <<>>

\* lines 242-247: the asset is skipped (no price, or no threshold row)
Skips(price, rows) == price = NoPrice \/ rows = <<>>

\* lines 239-273: one iteration of the alert loop
AlertIter ==
    /\ pc = "alerts"
    /\ idx <= Len(coins)
    /\ LET c == coins[idx]
           price == price_data[c]
       IN IF Skips(price, thresholds[c])
          THEN /\ idx' = idx + 1
               /\ UNCHANGED <<last_alert_state, triggered_alerts, pc,
                              crash_site, evaluated>>
          ELSE LET th == ThMap(c) IN
               IF FloatError(th) # ""
               THEN /\ pc' = "crashed"
                    /\ crash_site' = FloatError(th)
                    /\ UNCHANGED <<last_alert_state, triggered_alerts, idx, evaluated>>
               ELSE LET last_state == last_alert_state[c]
                        crossed_below == CrossedBelow(price, th.lower)
                        crossed_above == CrossedAbove(price, th.upper)
                        a1 == IF Fires(crossed_below, last_state.below)
                              THEN <<Alert(c, "below")>> ELSE <<>>
                        a2 == IF Fires(crossed_above, last_state.above)
                              THEN <<Alert(c, "above")>> ELSE <<>>
                    IN /\ triggered_alerts' = triggered_alerts \o a1 \o a2
                       /\ last_alert_state' = [last_alert_state EXCEPT ![c] =
                            [below |-> NewLatch(crossed_below, last_state.below),
                             above |-> NewLatch(crossed_above, last_state.above)]]
                       /\ evaluated' = [evaluated EXCEPT ![c] =
                            [below |-> Usable(th.lower) /\ price <= FloatValue(th.lower),
                             above |-> Usable(th.upper) /\ price >= FloatValue(th.upper)]]
                       /\ idx' = idx + 1
                       /\ UNCHANGED <<pc, crash_site>>
    /\ UNCHANGED <<history, thresholds, custom_coin, coins, price_data,
                   notifyVars, log_view, fetched, prev_price, edited, last_state0>>

\* lines 276-280: the loop is over; with alerts, the notification loop starts.
\* The SMTP settings were read in the sidebar (lines 106-118) and are only
\* read from here on.
AlertDone ==
    /\ pc = "alerts"
    /\ idx > Len(coins)
    /\ IF triggered_alerts = <<>>
       THEN /\ pc' = "viewer"
            /\ UNCHANGED smtp_configured
       ELSE /\ pc' = "log"
            /\ smtp_configured' \in BOOLEAN
    /\ idx' = 1
    /\ UNCHANGED <<session, custom_coin, coins, price_data, triggered_alerts,
                   logged, attempted, failed, crash_site, log_view, recordVars>>

\* lines 69-73, 281: log_alert appends a line, or open()/write() raises
LogAlert ==
    /\ pc = "log"
    /\ \/ /\ logged' = logged \cup {idx}
          /\ pc' = "email"
          /\ UNCHANGED crash_site
       \/ /\ pc' = "crashed"
          /\ crash_site' = "log_alert"
          /\ UNCHANGED logged
    /\ UNCHANGED <<session, custom_coin, coins, price_data, idx, triggered_alerts,
                   smtp_configured, attempted, failed, log_view, recordVars>>

\* EmailOutcome without the try/except: a failed delivery ends the run
EmailOutcome_Uncaught(outcome) ==
    /\ attempted' = IF outcome = "skipped" THEN attempted ELSE attempted \cup {idx}
    /\ failed' = IF outcome = "failed" THEN failed \cup {idx} ELSE failed
    /\ IF outcome = "failed"
       THEN pc' = "crashed" /\ crash_site' = "send_email_alert" /\ idx' = idx
       ELSE /\ IF idx < Len(triggered_alerts)
               THEN pc' = "log" /\ idx' = idx + 1
               ELSE pc' = "viewer" /\ idx' = 1
            /\ UNCHANGED crash_site

\* lines 283-298: the outcome of the delivery: "sent", "failed" (the exception
\* is caught, st.error) or "skipped" (missing SMTP configuration)
EmailOutcome(outcome) ==
    /\ attempted' = IF outcome = "skipped" THEN attempted ELSE attempted \cup {idx}
    /\ failed' = IF outcome = "failed" THEN failed \cup {idx} ELSE failed
    /\ IF idx < Len(triggered_alerts)
       THEN pc' = "log" /\ idx' = idx + 1
       ELSE pc' = "viewer" /\ idx' = 1
    /\ UNCHANGED crash_site

EmailAlert ==
    /\ pc = "email"
    /\ IF smtp_configured
       THEN \E o \in {"sent", "failed"} : EmailOutcome(o)
       ELSE EmailOutcome("skipped")
    /\ UNCHANGED <<session, custom_coin, coins, price_data, triggered_alerts,
                   smtp_configured, logged, log_view, recordVars>>

\* lines 303-312: the tail of alerts.log, an error message, or "no alerts yet"
LogViewer ==
    /\ pc = "viewer"
    /\ log_view' \in {"tail", "error", "caption"}
    /\ pc' = "refresh"
    /\ UNCHANGED <<session, custom_coin, coins, price_data, idx, triggered_alerts,
                   notifyVars, crash_site, recordVars>>

\* line 316: st_autorefresh schedules the next run
AutoRefresh ==
    /\ pc = "refresh"
    /\ pc' = "idle"
    /\ UNCHANGED <<session, custom_coin, coins, price_data, idx, triggered_alerts,
                   notifyVars, crash_site, log_view, recordVars>>

\* the steps of the script and its timer
ScriptStep(E) ==
    \/ TimerRerun
    \/ RerunScript
    \/ Sidebar(E)
    \/ SyncThresholds
    \/ DataEditor(E)
    \/ Fetch(E)
    \/ HistoryIter
    \/ HistoryDone
    \/ AlertIter
    \/ AlertDone
    \/ LogAlert
    \/ EmailAlert
    \/ LogViewer
    \/ AutoRefresh

Next == ScriptStep(EnvOne) \/ OperatorInput

Spec == Init /\ [][Next]_vars

Next2 == ScriptStep(EnvTwo) \/ OperatorInput

Spec2 == Init /\ [][Next2]_vars

\* The same two systems with no malformed cell in the table: the alert loop
\* then raises no error.
WellFormedRows == {r \in AllRows : FloatError(r) = ""}
EnvOneWellFormed == Env({<<>>, <<"bitcoin">>},
                        {<<>>} \cup {<<r>> : r \in WellFormedRows}, Prices, MaxSamples)
EnvTwoWellFormed == Env(CoinLists,
                        {<<>>} \cup {<<r>> : r \in LowerRows \cap WellFormedRows}, {1}, 0)

SpecWellFormed == Init /\ [][ScriptStep(EnvOneWellFormed) \/ OperatorInput]_vars

Spec2WellFormed == Init /\ [][ScriptStep(EnvTwoWellFormed) \/ OperatorInput]_vars

\* The script runs each step once started, and the refresh timer fires; the
\* operator is under no obligation.
FairSpec == Spec2 /\ WF_vars(ScriptStep(EnvTwo))

-----------------------------------------------------------------------------
(* Properties.                                                             *)

\* number of alerts of one asset and direction triggered in the run
Count(c, dir) ==
    Cardinality({i \in 1..Len(triggered_alerts) : triggered_alerts[i] = Alert(c, dir)})

\* the alert loop of the run is over: it finished, or an exception ended it
AlertLoopOver == pc \in {"log", "email", "viewer", "refresh", "idle", "crashed"}

\* the run's price of c is at or below the usable lower bound of c's row
AtOrBelow(c) ==
    /\ thresholds[c] # <<>>
    /\ Usable(ThMap(c).lower)
    /\ price_data[c] <= FloatValue(ThMap(c).lower)

\* the run's price of c is at or above the usable upper bound of c's row
AtOrAbove(c) ==
    /\ thresholds[c] # <<>>
    /\ Usable(ThMap(c).upper)
    /\ price_data[c] >= FloatValue(ThMap(c).upper)

\* the price mapping of the run is empty
FetchEmpty == \A c \in Coins : price_data[c] = NoPrice

LastN(s, n) == SubSeq(s, Len(s) - (IF Len(s) < n THEN Len(s) ELSE n) + 1, Len(s))

BothFire(c) == Count(c, "below") >= 1 /\ Count(c, "above") >= 1

\* C1: edge-triggered alerts.  For an asset with a price in this run and a
\* usable lower bound that has not changed since the asset's previous price,
\* exactly one "below" alert is triggered if price <= lower and the previous
\* price was not (or there was none), and none otherwise; likewise "above".
C1_EdgeTriggered ==
    AlertLoopOver =>
        \A c \in Coins :
            (/\ c \in Range(coins)
             /\ price_data[c] # NoPrice
             /\ thresholds[c] # <<>>
             /\ ~edited[c])
            => /\ Usable(ThMap(c).lower) =>
                    Count(c, "below") =
                        IF /\ AtOrBelow(c)
                           /\ ~(/\ prev_price[c] # NoPrice
                                /\ prev_price[c] <= FloatValue(ThMap(c).lower))
                        THEN 1 ELSE 0
               /\ Usable(ThMap(c).upper) =>
                    Count(c, "above") =
                        IF /\ AtOrAbove(c)
                           /\ ~(/\ prev_price[c] # NoPrice
                                /\ prev_price[c] >= FloatValue(ThMap(c).upper))
                        THEN 1 ELSE 0

\* C2 as stated: at the end of a cycle, for every asset whose price was
\* observed in it, below_active holds iff that price is <= a non-absent lower,
\* and above_active iff it is >= a non-absent upper.
C2_LatchTracksLastPrice ==
    pc = "refresh" =>
        \A c \in Coins :
            (c \in Range(coins) /\ price_data[c] # NoPrice)
            => /\ last_alert_state[c].below = AtOrBelow(c)
               /\ last_alert_state[c].above = AtOrAbove(c)

\* C2 amended: in every state, below_active (above_active) of an asset holds
\* iff the asset's most recent completed evaluation (a cycle with a price and a
\* threshold row for it, whose float() calls did not raise) found price <= a
\* usable lower (price >= a usable upper); no other cycle changes it.
C2_LatchTracksLastEvaluation ==
    \A c \in Coins : last_alert_state[c] = evaluated[c]

\* a cycle ended with a latch set although the price observed in it has no
\* threshold row to be compared with
C2_Witness ==
    /\ pc = "refresh"
    /\ \E c \in Coins :
        /\ c \in Range(coins)
        /\ price_data[c] # NoPrice
        /\ thresholds[c] = <<>>
        /\ last_alert_state[c].below

\* C3: in a cycle whose price mapping is empty, no step triggers an alert,
\* changes a history buffer or changes an edge-state.
C3_FailedCycleFrame ==
    [][FetchEmpty =>
        /\ history' = history
        /\ last_alert_state' = last_alert_state
        /\ triggered_alerts' = <<>>]_vars

\* a cycle with tracked assets and an empty price mapping ran to its end, for
\* an asset with a row, a set latch and a non-empty buffer
C3_Witness ==
    /\ pc = "refresh"
    /\ FetchEmpty
    /\ \E c \in Coins :
        /\ c \in Range(coins)
        /\ thresholds[c] # <<>>
        /\ last_alert_state[c].below
        /\ history[c] # <<>>

\* C4: outside the history loop, each asset's buffer is the last
\* min(k, HISTORY_LEN) of the k non-absent prices fetched for it, in order.
C4_HistoryIsLastSamples ==
    pc # "history" =>
        \A c \in Coins :
            /\ history[c] = LastN(fetched[c], HISTORY_LEN)
            /\ Len(history[c]) <= HISTORY_LEN

\* more than HISTORY_LEN samples, not all equal, were fetched for an asset
C4_Witness ==
    /\ pc = "refresh"
    /\ \E c \in Coins :
        /\ Len(fetched[c]) > HISTORY_LEN
        /\ fetched[c][1] # fetched[c][Len(fetched[c])]
        /\ price_data[c] = NoPrice

\* C5 as stated: a "below" and an "above" alert of one asset in one cycle only
\* if its row has lower > upper.
C5_BothOnlyIfLowerAboveUpper ==
    \A c \in Coins :
        BothFire(c) =>
            /\ thresholds[c] # <<>>
            /\ Usable(ThMap(c).lower) /\ Usable(ThMap(c).upper)
            /\ FloatValue(ThMap(c).lower) > FloatValue(ThMap(c).upper)

\* C5 amended: a "below" and an "above" alert of one asset in one cycle only
\* if its row has lower >= upper.
C5_BothOnlyIfLowerNotBelowUpper ==
    \A c \in Coins :
        BothFire(c) =>
            /\ thresholds[c] # <<>>
            /\ Usable(ThMap(c).lower) /\ Usable(ThMap(c).upper)
            /\ FloatValue(ThMap(c).lower) >= FloatValue(ThMap(c).upper)

\* both alerts of one asset were triggered in one cycle
C5_Witness == \E c \in Coins : BothFire(c)

\* C6: an asset whose lower and upper are each absent or malformed triggers no
\* alert, and its evaluation raises no error.
C6_UnusableBoundsAreNoBound ==
    \A c \in Coins :
        (/\ thresholds[c] # <<>>
         /\ ~Usable(ThMap(c).lower)
         /\ ~Usable(ThMap(c).upper))
        => /\ Count(c, "below") = 0
           /\ Count(c, "above") = 0
           /\ ~(/\ pc = "crashed"
                /\ crash_site \in {"float_lower", "float_upper"}
                /\ coins[idx] = c)

\* C7: a failure to append to the log file does not end the cycle.
C7_LogFailureNotFatal == ~(pc = "crashed" /\ crash_site = "log_alert")

\* C8: no delivery is attempted for an alert that was not logged first; a
\* failed delivery does not end the run; when the notification loop reaches
\* alert idx, and when it is over, every alert before that point is logged and
\* (with SMTP configured) had its delivery attempt, whichever deliveries failed.
C8_EmailFailuresIsolated ==
    /\ attempted \subseteq logged
    /\ failed \subseteq attempted
    /\ crash_site # "send_email_alert"
    /\ pc = "log" =>
        /\ logged = 1..(idx - 1)
        /\ attempted = IF smtp_configured THEN 1..(idx - 1) ELSE {}
    /\ pc \in {"viewer", "refresh", "idle"} =>
        /\ logged = 1..Len(triggered_alerts)
        /\ attempted = IF smtp_configured THEN 1..Len(triggered_alerts) ELSE {}

\* the delivery of the first alert failed, and the alert of another asset was
\* logged and had its delivery attempt after it
C8_Witness ==
    /\ pc = "viewer"
    /\ Len(triggered_alerts) = 2
    /\ triggered_alerts[1].coin # triggered_alerts[2].coin
    /\ 1 \in failed
    /\ logged = {1, 2}
    /\ 2 \in attempted

\* C9: once a custom coin id is entered, a cycle eventually reaches its end
\* with that id among the tracked coins (or the operator has changed the
\* input again).
C9_CustomCoinTracked ==
    \A id \in CustomIds :
        (custom_coin = id) ~>
            (custom_coin # id \/ (pc = "refresh" /\ Lower(id) \in Range(coins)))

\* C10: whether an alert is triggered for an asset is decided by that asset's
\* price, threshold row and previous edge-state alone: for every asset of the
\* cycle with a price and a row whose own bounds raise no error, a "below"
\* ("above") alert is triggered iff the price is at or below (above) its usable
\* bound and the latch of the direction was not set when the cycle began.
C10_AlertDependsOnOwnAsset ==
    AlertLoopOver =>
        \A c \in Coins :
            (/\ c \in Range(coins)
             /\ price_data[c] # NoPrice
             /\ thresholds[c] # <<>>
             /\ FloatError(ThMap(c)) = "")
            => /\ Count(c, "below") =
                    IF AtOrBelow(c) /\ ~last_state0[c].below THEN 1 ELSE 0
               /\ Count(c, "above") =
                    IF AtOrAbove(c) /\ ~last_state0[c].above THEN 1 ELSE 0

=============================================================================
